---- MODULE Spec2Model ----
(***************************************************************************)
(* Model of src/main.py: the Traefik -> DNS reconciliation loop.           *)
(*                                                                         *)
(* Text (rule expressions, hostnames, nsupdate directives, the SQL         *)
(* parameter of the cleanup query) is modelled as sequences of tokens, so  *)
(* that the regular expression, the ",".join and the SQL comparison are    *)
(* computed the way the code computes them.                                *)
(***************************************************************************)
EXTENDS Integers, Sequences, FiniteSets, TLC

(***************************************************************************)
(* Bounds of the model.                                                    *)
(***************************************************************************)
\* longest JSON array the proxy answers with
MaxRoutes == 3
\* longest JSON array in the runs checked for liveness
LiveRoutes == 1
\* most failures (transport, store) injected into one run
MaxFaults == 1
\* longest JSON array in the runs over rules with several predicates
RuleRoutes == 2

(***************************************************************************)
(* Configuration (src/main.py:20-34).                                      *)
(***************************************************************************)
TRAEFIK_ENTRYPOINTS == <<"web", "websecure">>
TARGET_IP == "192.168.178.2"
TTL == 3600

(***************************************************************************)
(* Helpers on sequences.                                                   *)
(***************************************************************************)
Range(s) == {s[k] : k \in 1..Len(s)}

Min(S) == CHOOSE x \in S : \A y \in S : x <= y

Max(S) == CHOOSE x \in S : \A y \in S : x >= y

\* the sequences of at most n elements of S, no element twice
ListsUpTo(S, n) ==
    {s \in UNION {[1..k -> S] : k \in 0..n} :
        \A j, k \in 1..Len(s) : j # k => s[j] # s[k]}

(***************************************************************************)
(* Rule expressions.  A rule is a sequence of tokens: HostOpen opens a     *)
(* Host predicate up to its backtick, Close is a backtick followed by a    *)
(* closing parenthesis (the backtick is written as an apostrophe).         *)
(***************************************************************************)
HostOpen == "Host('"
Close == "')"
\* another predicate up to its backtick, and the operators between predicates
OtherOpen == "PathPrefix('"
And == "&&"
Or == "||"

\* hostname_regex searched at or after position from: the leftmost HostOpen
\* that can still be closed, then a greedy group of one or more characters
\* that runs to the LAST Close of the rule (src/main.py:111).
MatchStarts(rule, from) ==
    {s \in from..Len(rule) :
        /\ rule[s] = HostOpen
        /\ \E e \in (s + 2)..Len(rule) : rule[e] = Close}

MatchEnd(rule, s) == Max({e \in (s + 2)..Len(rule) : rule[e] = Close})

\* re.finditer(hostname_regex, rule): group(1) of every match, in order.
RECURSIVE finditer(_, _)
finditer(rule, from) ==
    IF MatchStarts(rule, from) = {}
    THEN <<>>
    ELSE LET s == Min(MatchStarts(rule, from))
             e == MatchEnd(rule, s)
         IN  <<SubSeq(rule, s + 1, e - 1)>> \o finditer(rule, e + 1)

(***************************************************************************)
(* The proxy's answers.  A JSON object is [json |-> "object", fields |->   *)
(* a record]; any other JSON value carries only its kind.  Only the fields *)
(* the code reads (name, entryPoints, rule) are kept.                      *)
(***************************************************************************)
JObject(fields) == [json |-> "object", fields |-> fields]

JString == [json |-> "string"]

RuleHost(h) == <<HostOpen, h, Close>>

\* the route entries the proxy may report
Entries ==
    { JObject([name |-> "r1", entryPoints |-> <<"web">>, rule |-> RuleHost("a")]),
      JObject([name |-> "r2", entryPoints |-> <<"websecure">>, rule |-> RuleHost("b")]),
      JObject([name |-> "r3", entryPoints |-> <<"metrics", "web">>,
               rule |-> RuleHost("c")]),
      JObject([name |-> "r4", entryPoints |-> <<"metrics">>, rule |-> RuleHost("c")]),
      JObject([name |-> "r5", rule |-> RuleHost("a")]),
      JString }

\* the bodies of the proxy's answers: text that is no JSON, a JSON scalar,
\* a JSON object, or a JSON array of entries (the proxy reports a router
\* once: its name is its key)
Bodies(n) ==
    {[json |-> "invalid"], [json |-> "null"],
     JObject([message |-> "x"])}
    \cup {[json |-> "array", items |-> a] : a \in ListsUpTo(Entries, n)}

ErrorBodies ==
    {[json |-> "invalid"], [json |-> "null"], JObject([message |-> "x"]),
     [json |-> "array", items |-> <<>>]}

\* what requests.get meets: no connection, or an answer with a status
ResponsesUpTo(n) ==
    {[net |-> "error"]}
    \cup {[net |-> "ok", status |-> 200, body |-> b] : b \in Bodies(n)}
    \cup {[net |-> "ok", status |-> 503, body |-> b] : b \in ErrorBodies}

Responses == ResponsesUpTo(MaxRoutes)

\* route entries whose rules hold more than one Host predicate: a Host
\* predicate alone, the same hostname under a second router, a Host predicate
\* followed by another predicate, two Host predicates, no Host predicate
RuleEntries ==
    { JObject([name |-> "r1", entryPoints |-> <<"web">>, rule |-> RuleHost("a")]),
      JObject([name |-> "r6", entryPoints |-> <<"websecure">>, rule |-> RuleHost("a")]),
      JObject([name |-> "r7", entryPoints |-> <<"web">>,
               rule |-> RuleHost("a") \o <<And, OtherOpen, "/api", Close>>]),
      JObject([name |-> "r8", entryPoints |-> <<"web">>,
               rule |-> RuleHost("a") \o <<Or>> \o RuleHost("b")]),
      JObject([name |-> "r9", entryPoints |-> <<"web">>,
               rule |-> <<OtherOpen, "/api", Close>>]) }

RuleResponses ==
    {[net |-> "error"]}
    \cup {[net |-> "ok", status |-> 200, body |-> [json |-> "array", items |-> a]] :
            a \in ListsUpTo(RuleEntries, RuleRoutes)}

LiveResponses == ResponsesUpTo(LiveRoutes)

(***************************************************************************)
(* fetch_routers (src/main.py:81-98).                                      *)
(***************************************************************************)
\* requests.get raises, response.json() raises, or len(parsed) raises
FetchRaises(resp) ==
    \/ resp.net = "error"
    \/ resp.body.json \in {"invalid", "null"}

\* what "for entry in parsed" iterates over: the items of an array, the
\* keys (strings) of an object
Iterate(parsed) ==
    IF parsed.json = "array"
    THEN parsed.items
    ELSE [k \in 1..Cardinality(DOMAIN parsed.fields) |-> JString]

\* Router(**entry): a TypedDict checks nothing, any mapping is accepted
RouterAccepts(entry) == entry.json = "object"

RECURSIVE DecodeAll(_)
DecodeAll(entries) ==
    IF entries = <<>>
    THEN <<>>
    ELSE (IF RouterAccepts(Head(entries)) THEN <<Head(entries).fields>> ELSE <<>>)
         \o DecodeAll(Tail(entries))

fetch_routers(resp) == DecodeAll(Iterate(resp.body))

(***************************************************************************)
(* filter_routers (src/main.py:101-108).                                   *)
(***************************************************************************)
\* router["entryPoints"] raises KeyError
FilterRaises(rs) == \E k \in 1..Len(rs) : "entryPoints" \notin DOMAIN rs[k]

\* the comprehension without its condition
KeepsAny(router) == TRUE

Keeps(router) ==
    \E k \in 1..Len(TRAEFIK_ENTRYPOINTS) :
        TRAEFIK_ENTRYPOINTS[k] \in Range(router.entryPoints)

filter_routers(rs) == SelectSeq(rs, Keeps)

(***************************************************************************)
(* extract_hostnames (src/main.py:114-121).                                *)
(***************************************************************************)
\* router["rule"] raises KeyError
ExtractRaises(rs) == \E k \in 1..Len(rs) : "rule" \notin DOMAIN rs[k]

Matches(router) ==
    LET ms == finditer(router.rule, 1)
    IN  [k \in 1..Len(ms) |-> [hostname |-> ms[k], router |-> router]]

RECURSIVE extract_hostnames(_)
extract_hostnames(rs) ==
    IF rs = <<>>
    THEN <<>>
    ELSE Matches(Head(rs)) \o extract_hostnames(Tail(rs))

\* the hostname strings of a list of Hostname records
Names(hs) == {hs[k].hostname : k \in 1..Len(hs)}

(***************************************************************************)
(* update_dns_entry (src/main.py:124-154).  The zone is the set of its A   *)
(* records <<name, address>>.                                              *)
(***************************************************************************)
\* the text without its "update delete" line
TranscriptAddOnly(h, delete) ==
    <<[cmd |-> "server"], [cmd |-> "zone"]>>
    \o (IF ~delete
        THEN <<[cmd |-> "update add", name |-> h, ttl |-> TTL, data |-> TARGET_IP]>>
        ELSE <<>>)
    \o <<[cmd |-> "send"], [cmd |-> "quit"]>>

\* the text written to nsupdate's input, one directive per element
Transcript(h, delete) ==
    <<[cmd |-> "server"], [cmd |-> "zone"], [cmd |-> "update delete", name |-> h]>>
    \o (IF ~delete
        THEN <<[cmd |-> "update add", name |-> h, ttl |-> TTL, data |-> TARGET_IP]>>
        ELSE <<>>)
    \o <<[cmd |-> "send"], [cmd |-> "quit"]>>

\* one update directive applied to the zone
ApplyUpdate(zone, d) ==
    IF d.cmd = "update delete" THEN {rr \in zone : rr[1] # d.name}
    ELSE IF d.cmd = "update add" THEN zone \cup {<<d.name, d.data>>}
    ELSE zone

RECURSIVE ApplyUpdates(_, _)
ApplyUpdates(zone, ds) ==
    IF ds = <<>> THEN zone
    ELSE ApplyUpdates(ApplyUpdate(zone, Head(ds)), Tail(ds))

\* nsupdate: the updates read before "send" go to the server as one message
Nsupdate(zone, t) ==
    IF \E k \in 1..Len(t) : t[k].cmd = "send"
    THEN ApplyUpdates(zone, SubSeq(t, 1, Min({k \in 1..Len(t) : t[k].cmd = "send"})))
    ELSE zone

(***************************************************************************)
(* The store: table dns(hostname PRIMARY KEY, router), a function from     *)
(* hostnames to router names (src/main.py:36-41).                          *)
(***************************************************************************)
EmptyStore == [h \in {} |-> "none"]

\* INSERT OR REPLACE INTO dns (hostname, router) VALUES (?, ?)
InsertOrReplace(store, h, r) ==
    [x \in DOMAIN store \cup {h} |-> IF x = h THEN r ELSE store[x]]

\* DELETE FROM dns WHERE hostname = ?
DeleteFrom(store, h) == [x \in DOMAIN store \ {h} |-> store[x]]

\* ",".join(list of strings)
RECURSIVE Join(_)
Join(strs) ==
    IF strs = <<>> THEN <<>>
    ELSE IF Len(strs) = 1 THEN strs[1]
    ELSE strs[1] \o <<",">> \o Join(Tail(strs))

\* the one parameter bound to the query of cleanup_old_dns_entries
CleanupParam(hs) == Join([k \in 1..Len(hs) |-> hs[k].hostname])

\* the query without its WHERE clause
SelectAll(store, param) == DOMAIN store

\* SELECT hostname FROM dns WHERE hostname NOT IN (?)
SelectNotIn(store, param) == {h \in DOMAIN store : h # param}

\* a record of the zone that another system put there
ForeignRecord == <<<<"x">>, "192.168.178.7">>

\* the stale hostnames taken from the names of the zone as well
old_hostnames_of_zone(store, hs) ==
    SelectNotIn(store, CleanupParam(hs)) \cup {ForeignRecord[1]}

old_hostnames_of(store, hs) == SelectNotIn(store, CleanupParam(hs))

(***************************************************************************)
(* State.                                                                  *)
(***************************************************************************)
VARIABLES
    pc,             \* where the process stands
    disk,           \* the committed content of the database file
    conn,           \* the table as the open connection sees it (disk plus
                    \* the changes of its uncommitted transaction)
    dns,            \* the A records of the zone
    routers,        \* update_loop: routers, then filtered_routers
    hostnames,      \* update_loop: the Hostname records of this tick
    i,              \* update_loop: position of the for loop in hostnames
    old_hostnames,  \* cleanup: the selected hostnames not yet visited
    hostname,       \* cleanup: the hostname the for loop is at
    reply,          \* history: what the fetch of this tick met
    store0,         \* history: conn when this tick started
    dns0,           \* history: dns when this tick started
    adds,           \* history: the add-mode update_dns_entry calls of this tick
    deletes,        \* history: its delete-mode update_dns_entry calls
    store_failed,   \* history: a call to the database failed in this tick
    ended,          \* history: how update_loop ended, "no" while it runs
    pending,        \* history: the update_dns_entry calls that raised, in
                    \* this tick ("now") or in the tick before it ("earlier")
    faults          \* failures injected so far

vars == <<pc, disk, conn, dns, routers, hostnames, i, old_hostnames,
          hostname, reply, store0, dns0, adds, deletes, store_failed, ended,
          pending, faults>>

locals == <<routers, hostnames, i, old_hostnames, hostname>>

history == <<reply, store0, dns0, adds, deletes, store_failed, ended>>

NoHostname == <<>>

NoReply == [net |-> "none", status |-> 0, json |-> "none", count |-> 0]

\* the outcomes of a call that can fail: a failure only while the budget lasts
Outcomes == IF faults < MaxFaults THEN {"ok", "fail"} ELSE {"ok"}

\* how a run of nsupdate can end: "ok" is exit status 0 with the update
\* applied, "fail" a non-zero exit status, "stderr" exit status 0 with the
\* server's refusal written to the error stream and the zone left as it was
TransportOutcomes == IF faults < MaxFaults THEN {"ok", "fail", "stderr"} ELSE {"ok"}

Count(outcome) == IF outcome # "ok" THEN faults + 1 ELSE faults

\* the hostnames a database file left by an earlier run may hold
InitStores ==
    LET owner == [h \in {<<"a">>, <<"b">>, <<"c">>} |->
                    IF h = <<"a">> THEN "r1" ELSE IF h = <<"b">> THEN "r2" ELSE "r3"]
    IN  {[h \in S |-> owner[h]] : S \in SUBSET DOMAIN owner}

Init ==
    /\ pc = "connect"
    /\ disk \in InitStores
    /\ conn = EmptyStore
    /\ dns = {<<h, TARGET_IP>> : h \in DOMAIN disk}
    /\ routers = <<>>
    /\ hostnames = <<>>
    /\ i = 1
    /\ old_hostnames = {}
    /\ hostname = NoHostname
    /\ reply = NoReply
    /\ store0 = EmptyStore
    /\ dns0 = {}
    /\ adds = <<>>
    /\ deletes = {}
    /\ store_failed = FALSE
    /\ ended = "no"
    /\ pending = {}
    /\ faults = 0

(***************************************************************************)
(* Module initialisation (src/main.py:51-61): open the database file.      *)
(***************************************************************************)
Connect ==
    /\ pc = "connect"
    /\ conn' = disk
    /\ pc' = "fetch"
    /\ UNCHANGED <<pending, disk, dns, locals, history, faults>>

(***************************************************************************)
(* The handler of the while loop (src/main.py:216-217): an exception of    *)
(* update_loop is logged and the loop goes on to its sleep.                *)
(***************************************************************************)
\* the loop without its handler: the exception ends the process
OnTickErrorUncaught == "crashed"

OnTickError == "sleep"

Summary(resp) ==
    IF resp.net = "error"
    THEN [net |-> "error", status |-> 0, json |-> "none", count |-> 0]
    ELSE [net |-> "ok", status |-> resp.status, json |-> resp.body.json,
          count |-> IF FetchRaises(resp) THEN 0 ELSE Len(fetch_routers(resp))]

(***************************************************************************)
(* update_loop (src/main.py:197-209), statement by statement.              *)
(***************************************************************************)
FetchRouters(resp) ==
    /\ pc = "fetch"
    /\ reply' = Summary(resp)
    /\ store0' = conn
    /\ dns0' = dns
    /\ adds' = <<>>
    /\ deletes' = {}
    /\ store_failed' = FALSE
    /\ IF FetchRaises(resp)
       THEN /\ pc' = OnTickError
            /\ ended' = "raised"
            /\ UNCHANGED routers
       ELSE /\ pc' = "filter"
            /\ ended' = "no"
            /\ routers' = fetch_routers(resp)
    /\ UNCHANGED <<pending, disk, conn, dns, hostnames, i, old_hostnames, hostname, faults>>

FilterRouters ==
    /\ pc = "filter"
    /\ IF FilterRaises(routers)
       THEN /\ pc' = OnTickError
            /\ ended' = "raised"
            /\ routers' = <<>>
       ELSE /\ pc' = "extract"
            /\ routers' = filter_routers(routers)
            /\ UNCHANGED ended
    /\ UNCHANGED <<pending, disk, conn, dns, hostnames, i, old_hostnames, hostname,
                   reply, store0, dns0, adds, deletes, store_failed, faults>>

\* where the for loop over hostnames goes after position k
AfterHostname(hs, k) == IF k < Len(hs) THEN "publish" ELSE "select"

ExtractHostnames ==
    /\ pc = "extract"
    /\ routers' = <<>>
    /\ IF ExtractRaises(routers)
       THEN /\ pc' = OnTickError
            /\ ended' = "raised"
            /\ UNCHANGED <<hostnames, i>>
       ELSE /\ hostnames' = extract_hostnames(routers)
            /\ i' = 1
            /\ pc' = AfterHostname(hostnames', 0)
            /\ UNCHANGED ended
    /\ UNCHANGED <<pending, disk, conn, dns, old_hostnames, hostname, reply, store0, dns0,
                   adds, deletes, store_failed, faults>>

\* proc.returncode != 0 (src/main.py:151): the one test update_dns_entry
\* makes; the error stream is not piped and stderr is always None
Raises(outcome) == outcome = "fail"

\* what the handlers of src/main.py:189-190 and 206-207 log in this tick
Raised(h, mode, outcome) ==
    IF Raises(outcome) THEN {[hostname |-> h, mode |-> mode, age |-> "now"]} ELSE {}

\* update_dns_entry(hostname["hostname"]) (src/main.py:204); when it raises,
\* update_db is skipped, the handler logs, the loop goes on.  The field ok
\* of the record says that the transport reported no error.
PublishDns(outcome) ==
    /\ pc = "publish"
    /\ LET h == hostnames[i].hostname
       IN  /\ adds' = Append(adds, [hostname |-> h, ok |-> outcome = "ok"])
           /\ dns' = IF outcome = "ok" THEN Nsupdate(dns, Transcript(h, FALSE))
                     ELSE dns
           /\ IF ~Raises(outcome)
              THEN /\ pc' = "upsert"
                   /\ UNCHANGED i
              ELSE /\ pc' = AfterHostname(hostnames, i)
                   /\ i' = i + 1
    /\ pending' = pending \cup Raised(hostnames[i].hostname, "add", outcome)
    /\ faults' = Count(outcome)
    /\ UNCHANGED <<disk, conn, routers, hostnames, old_hostnames, hostname,
                   reply, store0, dns0, deletes, store_failed, ended>>

\* update_db without its try: the error of the database ends update_loop
OnStoreErrorUncaught(hs, k) == OnTickError

\* the handler of update_db (src/main.py:166-167): the error is logged,
\* update_db returns and the for loop goes on after position k
OnStoreError(hs, k) == AfterHostname(hs, k)

\* update_db: cursor.execute(INSERT OR REPLACE ...) (src/main.py:161-164);
\* a router without a name raises KeyError inside the try as well
PublishExecute(outcome) ==
    /\ pc = "upsert"
    /\ IF outcome = "ok" /\ "name" \in DOMAIN hostnames[i].router
       THEN /\ conn' = InsertOrReplace(conn, hostnames[i].hostname,
                                       hostnames[i].router.name)
            /\ pc' = "commit_upsert"
            /\ UNCHANGED i
       ELSE /\ pc' = OnStoreError(hostnames, i)
            /\ i' = i + 1
            /\ UNCHANGED conn
    /\ store_failed' = (store_failed \/ outcome = "fail")
    /\ faults' = Count(outcome)
    /\ UNCHANGED <<pending, disk, dns, routers, hostnames, old_hostnames, hostname,
                   reply, store0, dns0, adds, deletes, ended>>

\* update_db: conn.commit() (src/main.py:165); a failed commit is logged and
\* leaves the transaction open
PublishCommit(outcome) ==
    /\ pc = "commit_upsert"
    /\ disk' = IF outcome = "ok" THEN conn ELSE disk
    /\ pc' = IF outcome = "ok" THEN AfterHostname(hostnames, i)
             ELSE OnStoreError(hostnames, i)
    /\ i' = i + 1
    /\ store_failed' = (store_failed \/ outcome = "fail")
    /\ faults' = Count(outcome)
    /\ UNCHANGED <<pending, conn, dns, routers, hostnames, old_hostnames, hostname,
                   reply, store0, dns0, adds, deletes, ended>>

(***************************************************************************)
(* cleanup_old_dns_entries (src/main.py:170-194).                          *)
(***************************************************************************)
\* where the for loop over old_hostnames goes when `left` remain
AfterOld(left) == IF left = {} THEN "commit_cleanup" ELSE "retire"

\* the SELECT (src/main.py:175-181); a failing query is logged by the outer
\* handler and the function returns
CleanupSelect(outcome) ==
    /\ pc = "select"
    /\ IF outcome = "ok"
       THEN /\ old_hostnames' = old_hostnames_of(conn, hostnames)
            /\ pc' = AfterOld(old_hostnames')
       ELSE /\ pc' = "sleep"
            /\ UNCHANGED old_hostnames
    /\ ended' = IF pc' = "sleep" THEN "returned" ELSE ended
    /\ store_failed' = (store_failed \/ outcome = "fail")
    /\ faults' = Count(outcome)
    /\ UNCHANGED <<pending, disk, conn, dns, routers, hostnames, i, hostname,
                   reply, store0, dns0, adds, deletes>>

\* update_dns_entry(hostname, delete=True) (src/main.py:186); the rows come
\* in the order SQLite chooses
CleanupDns(h, outcome) ==
    /\ pc = "retire"
    /\ h \in old_hostnames
    /\ old_hostnames' = old_hostnames \ {h}
    /\ deletes' = deletes \cup {[hostname |-> h, ok |-> outcome = "ok"]}
    /\ dns' = IF outcome = "ok" THEN Nsupdate(dns, Transcript(h, TRUE)) ELSE dns
    /\ IF ~Raises(outcome)
       THEN /\ hostname' = h
            /\ pc' = "remove"
       ELSE /\ pc' = AfterOld(old_hostnames')
            /\ UNCHANGED hostname
    /\ pending' = pending \cup Raised(h, "delete", outcome)
    /\ faults' = Count(outcome)
    /\ UNCHANGED <<disk, conn, routers, hostnames, i, reply, store0, dns0,
                   adds, store_failed, ended>>

\* cursor.execute(DELETE FROM dns WHERE hostname = ?) (src/main.py:187)
CleanupExecute(outcome) ==
    /\ pc = "remove"
    /\ conn' = IF outcome = "ok" THEN DeleteFrom(conn, hostname) ELSE conn
    /\ hostname' = NoHostname
    /\ pc' = AfterOld(old_hostnames)
    /\ store_failed' = (store_failed \/ outcome = "fail")
    /\ faults' = Count(outcome)
    /\ UNCHANGED <<pending, disk, dns, routers, hostnames, i, old_hostnames,
                   reply, store0, dns0, adds, deletes, ended>>

\* conn.commit() after the loop (src/main.py:192)
CleanupCommit(outcome) ==
    /\ pc = "commit_cleanup"
    /\ disk' = IF outcome = "ok" THEN conn ELSE disk
    /\ pc' = "sleep"
    /\ ended' = "returned"
    /\ store_failed' = (store_failed \/ outcome = "fail")
    /\ faults' = Count(outcome)
    /\ UNCHANGED <<pending, conn, dns, locals, reply, store0, dns0, adds, deletes>>

(***************************************************************************)
(* The while loop (src/main.py:212-220) and the process.                   *)
(***************************************************************************)
\* the locals of the tick that ended go out of scope, its history is over
Forget ==
    /\ routers' = <<>>
    /\ hostnames' = <<>>
    /\ i' = 1
    /\ old_hostnames' = {}
    /\ hostname' = NoHostname
    /\ reply' = NoReply
    /\ store0' = EmptyStore
    /\ dns0' = {}
    /\ adds' = <<>>
    /\ deletes' = {}
    /\ store_failed' = FALSE
    /\ ended' = "no"

\* the failures that the tick that ended leaves to the tick after it
Outstanding ==
    {[hostname |-> p.hostname, mode |-> p.mode, age |-> "earlier"] :
        p \in {q \in pending : q.age = "now"}}

\* sleep(UPDATE_INTERVAL), then the next update_loop
Sleep ==
    /\ pc = "sleep"
    /\ pc' = "fetch"
    /\ Forget
    /\ pending' = Outstanding
    /\ UNCHANGED <<disk, conn, dns, faults>>

\* the process is stopped between two ticks and started again: what the
\* connection held uncommitted is gone, module initialisation runs again
Restart ==
    /\ pc = "sleep"
    /\ pc' = "connect"
    /\ conn' = EmptyStore
    /\ Forget
    /\ pending' = Outstanding
    /\ UNCHANGED <<disk, dns, faults>>

NextOn(R) ==
    \/ Connect
    \/ \E resp \in R : FetchRouters(resp)
    \/ FilterRouters
    \/ ExtractHostnames
    \/ \E outcome \in TransportOutcomes : PublishDns(outcome)
    \/ \E outcome \in Outcomes : PublishExecute(outcome)
    \/ \E outcome \in Outcomes : PublishCommit(outcome)
    \/ \E outcome \in Outcomes : CleanupSelect(outcome)
    \/ \E h \in old_hostnames, outcome \in TransportOutcomes : CleanupDns(h, outcome)
    \/ \E outcome \in Outcomes : CleanupExecute(outcome)
    \/ \E outcome \in Outcomes : CleanupCommit(outcome)
    \/ Sleep
    \/ Restart

Next == NextOn(Responses)

Spec == Init /\ [][Next]_vars

\* the scheduling of a single thread: a step that can be taken is taken;
\* the runs checked for liveness draw the shorter arrays
NextLive == NextOn(LiveResponses)

FairSpec == Init /\ [][NextLive]_vars /\ WF_vars(NextLive)

\* the zones the updater may meet for hostname a: no record, its record, a
\* record that drifted to another address, both
DriftedZones ==
    {{ForeignRecord} \cup z :
        z \in SUBSET {<<<<"a">>, TARGET_IP>>, <<<<"a">>, "192.168.178.9">>}}

\* the process starts with an empty database file on a zone that holds
\* records already
InitDrifted ==
    /\ pc = "connect"
    /\ disk = EmptyStore
    /\ conn = EmptyStore
    /\ dns \in DriftedZones
    /\ routers = <<>>
    /\ hostnames = <<>>
    /\ i = 1
    /\ old_hostnames = {}
    /\ hostname = NoHostname
    /\ reply = NoReply
    /\ store0 = EmptyStore
    /\ dns0 = {}
    /\ adds = <<>>
    /\ deletes = {}
    /\ store_failed = FALSE
    /\ ended = "no"
    /\ pending = {}
    /\ faults = 0

\* the runs over these rules and zones are those in which no call fails
NextRules ==
    \/ Connect
    \/ \E resp \in RuleResponses : FetchRouters(resp)
    \/ FilterRouters
    \/ ExtractHostnames
    \/ PublishDns("ok")
    \/ PublishExecute("ok")
    \/ PublishCommit("ok")
    \/ CleanupSelect("ok")
    \/ \E h \in old_hostnames : CleanupDns(h, "ok")
    \/ CleanupExecute("ok")
    \/ CleanupCommit("ok")
    \/ Sleep
    \/ Restart

RuleSpec == InitDrifted /\ [][NextRules]_vars

(***************************************************************************)
(* Vocabulary of the properties.                                           *)
(***************************************************************************)
\* update_loop has ended and its history is still in place
TickOver == pc = "sleep"

\* update_loop ran to its end: fetch, filter and extract raised nothing
Completed == TickOver /\ ended = "returned"

NoMutationFailed ==
    /\ \A k \in 1..Len(adds) : adds[k].ok
    /\ \A d \in deletes : d.ok

Published(h) == <<h, TARGET_IP>> \in dns

(***************************************************************************)
(* C1  Convergence: when a tick completes in which the fetch succeeded and *)
(* no DNS mutation failed, the hostnames persisted in the store are        *)
(* exactly the distinct hostnames extracted in that tick.  Stated for      *)
(* ticks in which no store call failed either, so that what refutes it is  *)
(* the reconciliation itself.                                              *)
(***************************************************************************)
Convergence ==
    (Completed /\ NoMutationFailed /\ ~store_failed)
        => DOMAIN disk = Names(hostnames)

(***************************************************************************)
(* C2  Stale computation: the hostnames the query of                       *)
(* cleanup_old_dns_entries selects are exactly the persisted hostnames     *)
(* minus the distinct hostnames of the desired sequence.                   *)
(***************************************************************************)
StaleComputation ==
    [][(pc = "select" /\ pc' \in {"retire", "commit_cleanup"})
          => old_hostnames' = DOMAIN conn \ Names(hostnames)]_vars

(***************************************************************************)
(* C3  Partial-failure isolation: in a tick with three desired hostnames   *)
(* in which the DNS add of one fails, every hostname whose add succeeded   *)
(* got its add, is in the store and is still published when the tick       *)
(* completes.  Stated for ticks in which no store call failed.             *)
(***************************************************************************)
PartialFailureIsolation ==
    (/\ Completed
     /\ ~store_failed
     /\ Cardinality(Names(hostnames)) >= 3
     /\ \E k \in 1..Len(adds) : ~adds[k].ok)
        => /\ Len(adds) = Len(hostnames)
           /\ \A k \in 1..Len(adds) :
                adds[k].ok => /\ adds[k].hostname \in DOMAIN disk
                              /\ Published(adds[k].hostname)

(***************************************************************************)
(* C4  Removal discipline: the running process drops a store entry only    *)
(* for a hostname that is not desired in this tick and whose delete-mode   *)
(* DNS mutation succeeded in this tick.                                    *)
(***************************************************************************)
RemovalDiscipline ==
    [][\A h \in DOMAIN conn \ DOMAIN conn' :
          pc' # "connect"
              => /\ h \notin Names(hostnames)
                 /\ [hostname |-> h, ok |-> TRUE] \in deletes]_vars

(***************************************************************************)
(* C5  DNS implies store: at the end of every tick, every hostname with an *)
(* address record in the zone has a persisted entry.                       *)
(***************************************************************************)
DnsImpliesStore == TickOver => \A rr \in dns : rr[1] \in DOMAIN disk

(***************************************************************************)
(* C6  Fetch error containment: a tick whose fetch met no connection, a    *)
(* status other than 2xx or a body that is no JSON array reaches its sleep *)
(* with the zone and the store as they were at the tick's start.           *)
(***************************************************************************)
FetchFailed ==
    \/ reply.net = "error"
    \/ reply.net = "ok" /\ (reply.status # 200 \/ reply.json # "array")

FetchErrorContainment ==
    (TickOver /\ FetchFailed) => /\ conn = store0
                                 /\ dns = dns0

(***************************************************************************)
(* C7  Per-route decode isolation: when the fetched array holds a          *)
(* malformed entry (an object without entryPoints, rule or name) beside    *)
(* well-formed routes bound to a configured entry point, the tick is not   *)
(* abandoned and the hostnames of those routes reach the publishing loop.  *)
(***************************************************************************)
WellFormed(router) == {"name", "entryPoints", "rule"} \subseteq DOMAIN router

ExpectedNames(rs) ==
    Names(extract_hostnames(filter_routers(SelectSeq(rs, WellFormed))))

DecodeIsolation ==
    [][(/\ pc \in {"filter", "extract"}
        /\ \E k \in 1..Len(routers) : ~WellFormed(routers[k])
        /\ ExpectedNames(routers) # {})
          => /\ pc' # "sleep"
             /\ pc = "extract" => ExpectedNames(routers) \subseteq Names(hostnames')]_vars

(***************************************************************************)
(* C8  Loop liveness: whatever fails inside a tick, the tick is followed   *)
(* by the sleep and a new tick starts again and again.                     *)
(***************************************************************************)
LoopLiveness ==
    /\ []<>(pc = "fetch")
    /\ []<>(pc = "sleep")
    /\ [][pc' = "fetch" => pc \in {"sleep", "connect"}]_vars

\* a tick starts after a call has failed
LoopLivenessWitness == pc = "fetch" /\ faults > 0

(***************************************************************************)
(* C9  Restart safety: a restart between two ticks changes nothing the     *)
(* next tick reads: when the process is stopped in its sleep, the table as *)
(* its connection saw it is the table on disk.                             *)
(***************************************************************************)
RestartSafety == [][(pc = "sleep" /\ pc' = "connect") => conn = disk]_vars

(***************************************************************************)
(* C10  End to end: from an empty store, a tick that fetches one route     *)
(* with one Host clause and meets no failure issues one add, no delete,    *)
(* and leaves the store holding that hostname under the route's name.      *)
(***************************************************************************)
SingleRouteTick ==
    /\ Completed
    /\ store0 = EmptyStore
    /\ reply.count = 1
    /\ Len(hostnames) = 1
    /\ NoMutationFailed
    /\ ~store_failed

EndToEnd ==
    SingleRouteTick
        => /\ adds = <<[hostname |-> hostnames[1].hostname, ok |-> TRUE]>>
           /\ deletes = {}
           /\ conn = (hostnames[1].hostname :> hostnames[1].router.name)
           /\ disk = conn

EndToEndWitness == SingleRouteTick /\ Published(hostnames[1].hostname)

(***************************************************************************)
(* C11  Extraction correctness: extract_hostnames yields one record per    *)
(* Host clause of every rule, carrying the value between the backticks of  *)
(* that clause, in route order then clause order: a Host clause followed   *)
(* by another predicate yields just its host, two Host clauses yield two   *)
(* hostnames, a rule without Host clause yields none.                      *)
(***************************************************************************)
\* the values of the Host clauses of a rule, from position `from` on
RECURSIVE HostClauses(_, _)
HostClauses(rule, from) ==
    IF from + 2 > Len(rule)
    THEN <<>>
    ELSE IF rule[from] = HostOpen /\ rule[from + 2] = Close
         THEN <<<<rule[from + 1]>>>> \o HostClauses(rule, from + 3)
         ELSE HostClauses(rule, from + 1)

RECURSIVE ClauseRecords(_)
ClauseRecords(rs) ==
    IF rs = <<>>
    THEN <<>>
    ELSE LET cs == HostClauses(Head(rs).rule, 1)
         IN  [k \in 1..Len(cs) |-> [hostname |-> cs[k], router |-> Head(rs)]]
             \o ClauseRecords(Tail(rs))

ExtractionCorrectness ==
    [][(pc = "extract" /\ pc' \in {"publish", "select"})
          => hostnames' = ClauseRecords(routers)]_vars

(***************************************************************************)
(* C12  Mutator idempotence and shape: the transcript of every             *)
(* update_dns_entry call deletes the A records of the hostname first, adds *)
(* a record to the target address in add mode only, and ends with send     *)
(* (only quit follows).  So a successful add leaves exactly one address    *)
(* record for the hostname whatever the zone held for it before (nothing,  *)
(* a drifted record, two records), sending the same transcript again       *)
(* changes nothing, and a successful delete leaves no record for it.       *)
(***************************************************************************)
Directives(t, c) == {k \in 1..Len(t) : t[k].cmd = c}

WellShaped(t, h, delete) ==
    /\ Cardinality(Directives(t, "update delete")) = 1
    /\ \A k \in Directives(t, "update delete") : t[k].name = h
    /\ Cardinality(Directives(t, "update add")) = (IF delete THEN 0 ELSE 1)
    /\ \A k \in Directives(t, "update add") :
          /\ t[k].name = h
          /\ t[k].data = TARGET_IP
          /\ \A d \in Directives(t, "update delete") : d < k
    /\ Cardinality(Directives(t, "send")) = 1
    /\ \A k \in Directives(t, "send") :
          /\ \A u \in Directives(t, "update delete") \cup Directives(t, "update add") :
                u < k
          /\ \A q \in (k + 1)..Len(t) : t[q].cmd = "quit"

RecordsOf(zone, h) == {rr \in zone : rr[1] = h}

MutatorIdempotence ==
    [][/\ (pc = "publish" /\ Len(adds') > Len(adds) /\ adds'[Len(adds')].ok)
          => LET h == hostnames[i].hostname
                 t == Transcript(h, FALSE)
             IN  /\ WellShaped(t, h, FALSE)
                 /\ dns' = Nsupdate(dns, t)
                 /\ RecordsOf(dns', h) = {<<h, TARGET_IP>>}
                 /\ dns' \ RecordsOf(dns', h) = dns \ RecordsOf(dns, h)
                 /\ Nsupdate(dns', t) = dns'
       /\ (pc = "retire" /\ [hostname |-> hostname', ok |-> TRUE] \in deletes' \ deletes)
          => LET h == hostname'
                 t == Transcript(h, TRUE)
             IN  /\ WellShaped(t, h, TRUE)
                 /\ dns' = Nsupdate(dns, t)
                 /\ RecordsOf(dns', h) = {}
                 /\ dns' \ RecordsOf(dns', h) = dns \ RecordsOf(dns, h)
                 /\ Nsupdate(dns', t) = dns']_vars

\* an add has succeeded for a hostname that had two records in the zone
MutatorIdempotenceWitness ==
    /\ pc = "upsert"
    /\ Cardinality(RecordsOf(dns0, hostnames[i].hostname)) = 2
    /\ adds[Len(adds)].ok
    /\ RecordsOf(dns, hostnames[i].hostname) = {<<hostnames[i].hostname, TARGET_IP>>}

(***************************************************************************)
(* C13  Mutation failure detection: update_dns_entry raises, and the       *)
(* caller skips the store update, whenever the transport exits with a      *)
(* non-zero status or reports an error on its error stream; it returns     *)
(* normally only when the transport reported no error at all.              *)
(***************************************************************************)
FailureDetection ==
    [][/\ (pc = "publish" /\ Len(adds') > Len(adds))
          => (adds'[Len(adds')].ok <=> pc' = "upsert")
       /\ \A d \in deletes' \ deletes : d.ok <=> pc' = "remove"]_vars

(***************************************************************************)
(* C14  Filter correctness as seen by DNS: filter_routers keeps a route if *)
(* and only if its entry points and the configured ones have an element in *)
(* common; so every add-mode DNS mutation and every store upsert of a tick *)
(* is for a hostname of a fetched route bound to a configured entry point, *)
(* never for one that only routes bound elsewhere carry.                   *)
(***************************************************************************)
Allowed(router) == Range(router.entryPoints) \cap Range(TRAEFIK_ENTRYPOINTS) # {}

FromAllowedRoute(h) ==
    \E k \in 1..Len(hostnames) :
        hostnames[k].hostname = h /\ Allowed(hostnames[k].router)

FilterCorrectness ==
    /\ [][(pc = "filter" /\ pc' = "extract")
             => routers' = SelectSeq(routers, Allowed)]_vars
    /\ [](\A k \in 1..Len(adds) : FromAllowedRoute(adds[k].hostname))
    /\ [][pc = "upsert"
             => \A h \in DOMAIN conn' :
                   (h \notin DOMAIN conn \/ conn'[h] # conn[h]) => FromAllowedRoute(h)]_vars

\* an upsert is due in a tick whose fetch held a route that the filter
\* dropped (every kept route of these runs yields one hostname)
FilterCorrectnessWitness ==
    /\ pc = "upsert"
    /\ reply.count > Len(hostnames)
    /\ Published(hostnames[i].hostname)

(***************************************************************************)
(* C15  Store follows successful mutation only: the store entry of a       *)
(* hostname is written only right after the add-mode DNS mutation for that *)
(* hostname succeeded, and removed only after its delete-mode mutation     *)
(* succeeded in this tick; a step in which the mutation fails leaves the   *)
(* store as it is and moves on to the next hostname.                       *)
(***************************************************************************)
StoreFollowsMutation ==
    [][/\ (pc = "upsert" /\ pc' = "commit_upsert")
          => adds[Len(adds)] = [hostname |-> hostnames[i].hostname, ok |-> TRUE]
       /\ \A h \in DOMAIN conn' :
             (pc # "connect" /\ (h \notin DOMAIN conn \/ conn'[h] # conn[h]))
                => /\ pc = "upsert"
                   /\ h = hostnames[i].hostname
       /\ \A h \in DOMAIN conn \ DOMAIN conn' :
             pc' # "connect" => [hostname |-> h, ok |-> TRUE] \in deletes
       /\ (pc = "publish" /\ Len(adds') > Len(adds) /\ ~adds'[Len(adds')].ok)
          => /\ conn' = conn
             /\ i' = i + 1
             /\ pc' \in {"publish", "select"}
       /\ \A d \in deletes' \ deletes :
             ~d.ok => /\ conn' = conn
                      /\ pc' \in {"retire", "commit_cleanup"}]_vars

(***************************************************************************)
(* C16  Duplicate hostnames are last-writer-wins: when two allowed routes  *)
(* yield the same hostname in one tick and every mutation and store call   *)
(* succeeds, the store holds an entry for that hostname when the tick      *)
(* completes, under the name of the second route.                          *)
(***************************************************************************)
DuplicateTick ==
    /\ Completed
    /\ NoMutationFailed
    /\ ~store_failed
    /\ Len(hostnames) = 2
    /\ hostnames[1].hostname = hostnames[2].hostname
    /\ hostnames[1].router.name # hostnames[2].router.name

LastWriterWins ==
    DuplicateTick
        => /\ hostnames[2].hostname \in DOMAIN conn
           /\ conn[hostnames[2].hostname] = hostnames[2].router.name
           /\ hostnames[2].hostname \in DOMAIN disk
           /\ disk[hostnames[2].hostname] = hostnames[2].router.name

(***************************************************************************)
(* C17  Store error does not abort the tick: after a failed upsert the     *)
(* loop goes on with the next desired hostname, so that every desired      *)
(* hostname has had its DNS add, and every one but the failed one its      *)
(* upsert, when the retirement phase starts; after a failed removal the    *)
(* retirement goes on with the stale hostnames that remain, and all of     *)
(* them have been visited when the phase ends.                             *)
(***************************************************************************)
Retiring == pc \in {"select", "retire", "remove", "commit_cleanup"}

\* the one failure of the run so far is a store call of this tick
OneStoreFailure == faults = 1 /\ store_failed

StoreErrorContained ==
    /\ [][/\ pc = "upsert"
             => /\ pc' \in {"commit_upsert", "publish", "select"}
                /\ (pc' # "commit_upsert" => i' = i + 1)
          /\ pc = "commit_upsert"
             => /\ pc' \in {"publish", "select"}
                /\ i' = i + 1
          /\ pc = "remove"
             => /\ pc' \in {"retire", "commit_cleanup"}
                /\ old_hostnames' = old_hostnames]_vars
    /\ [](Retiring => Len(adds) = Len(hostnames))
    /\ []((pc = "select" /\ OneStoreFailure)
             => Cardinality(Names(hostnames) \ DOMAIN conn) <= 1)
    /\ [](pc = "commit_cleanup" => old_hostnames = {})

\* the first upsert of a tick failed and the loop is at its next hostname
StoreErrorContainedWitness ==
    /\ pc = "upsert"
    /\ OneStoreFailure
    /\ i = 2
    /\ adds[1].ok
    /\ adds[1].hostname \notin DOMAIN conn

(***************************************************************************)
(* C18  Each store call commits independently: in a run without failure,   *)
(* whenever the next DNS mutation is about to be issued, every upsert and  *)
(* every removal performed so far is on disk, so that a process killed at  *)
(* that point leaves a database file that reflects them.                   *)
(***************************************************************************)
CommitsIndependently ==
    (pc \in {"publish", "retire"} /\ faults = 0) => disk = conn

(***************************************************************************)
(* C19  Retry by next tick: within a tick every hostname gets one attempt; *)
(* a desired hostname whose add raised in the tick before is published and *)
(* persisted at the end of this tick when it is desired again and its add  *)
(* succeeds; a stale hostname whose delete raised in the tick before is    *)
(* still in the store, is selected again by this tick unless it is desired *)
(* again, and is gone from DNS and from the store at the end of this tick  *)
(* when its delete succeeds.                                               *)
(***************************************************************************)
FailedEarlier(mode) ==
    {p.hostname : p \in {q \in pending : q.mode = mode /\ q.age = "earlier"}}

AddSucceeded(h) == \E k \in 1..Len(adds) : adds[k] = [hostname |-> h, ok |-> TRUE]

DeleteSucceeded(h) == [hostname |-> h, ok |-> TRUE] \in deletes

BeforeRetiring ==
    pc \in {"fetch", "filter", "extract", "publish", "upsert", "commit_upsert", "select"}

RetryByNextTick ==
    /\ [](/\ Len(adds) <= Len(hostnames)
          /\ \A k \in 1..Len(adds) : adds[k].hostname = hostnames[k].hostname)
    /\ [][\A d \in deletes' \ deletes : \A e \in deletes : e.hostname # d.hostname]_vars
    /\ []((Completed /\ ~store_failed)
            => \A h \in FailedEarlier("add") :
                  AddSucceeded(h) => Published(h) /\ h \in DOMAIN disk)
    /\ [](BeforeRetiring => \A h \in FailedEarlier("delete") : h \in DOMAIN conn)
    /\ [][(pc = "select" /\ pc' \in {"retire", "commit_cleanup"})
             => FailedEarlier("delete") \ Names(hostnames) \subseteq old_hostnames']_vars
    /\ []((Completed /\ ~store_failed)
            => \A h \in FailedEarlier("delete") \ Names(hostnames) :
                  DeleteSucceeded(h) => RecordsOf(dns, h) = {} /\ h \notin DOMAIN disk)

(***************************************************************************)
(* C20  Retirement never touches foreign names: a delete-mode DNS mutation *)
(* is issued only for a hostname that is in the store at that moment, and  *)
(* the retirement removes no record of another name from the zone; a       *)
(* hostname enters the store only in a tick that extracted it from a route *)
(* bound to a configured entry point, and the database file only takes     *)
(* what the store holds, so a store that starts empty never holds another  *)
(* name.                                                                   *)
(***************************************************************************)
OwnNamesOnly ==
    /\ [][\A d \in deletes' \ deletes : d.hostname \in DOMAIN conn]_vars
    /\ [][pc = "retire" => \A rr \in dns \ dns' : rr[1] \in DOMAIN conn]_vars
    /\ [][\A h \in DOMAIN conn' \ DOMAIN conn :
             pc # "connect" => FromAllowedRoute(h)]_vars
    /\ [][pc = "connect" => conn' = disk]_vars
    /\ [][\A h \in DOMAIN disk' \ DOMAIN disk : h \in DOMAIN conn]_vars

\* the record of a stale hostname has been deleted after a failure
OwnNamesOnlyWitness ==
    /\ pc = "remove"
    /\ [hostname |-> hostname, ok |-> TRUE] \in deletes
    /\ RecordsOf(dns0, hostname) # {}
    /\ RecordsOf(dns, hostname) = {}
    /\ faults > 0

====
